---- MODULE Spec2Model ----
(***************************************************************************)
(* Model of gcov_gcc.c: the gcda encoder gcov_convert_to_gcda, the counter *)
(* reset gcov_clear_counters, and the instrumented program that increments *)
(* the counters both of them walk.                                         *)
(*                                                                         *)
(* Numbers wider than a TLC integer are kept as little-endian sequences of *)
(* 16-bit limbs: a gcov_unsigned_t is <<l0, l1>> (value l0 + 2^16*l1), a   *)
(* gcov_type is <<l0, l1, l2, l3>>.                                        *)
(***************************************************************************)
EXTENDS Integers, Sequences, FiniteSets, TLC

(* ------------------------------ bounds --------------------------------- *)
\* functions of a unit
MaxFunctions == 2
\* counter values of one group
MaxNum == 2
\* counter values of a whole unit
MaxCounters == 2
\* increments the instrumented program performs in a run
MaxIncs == 2
\* calls of gcov_convert_to_gcda in a run
MaxEncCalls == 3
\* calls of gcov_clear_counters in a run
MaxClrCalls == 1
\* counter-kind slots of the merge array (the header's GCOV_COUNTERS; the
\* walk is the same for any number of slots)
GCOV_COUNTERS == 2

(* --------------------------- limb arithmetic --------------------------- *)
Base == 2^16

\* a 32-bit word from a small natural
U32(n) == <<n % Base, n \div Base>>

\* a 32-bit word from its two 16-bit halves, high half first as in 0xHHHHLLLL
W32(hi, lo) == <<lo, hi>>

\* a 64-bit value from a small natural
U64(n) == <<n % Base, n \div Base, 0, 0>>

\* a 64-bit value from its two 32-bit words
Join64(lo, hi) == lo \o hi

RECURSIVE AddLimbs(_, _, _)
\* v + c on limbs from position i on, dropping the carry out of the top limb
AddLimbs(v, c, i) ==
    IF i > Len(v) THEN v
    ELSE LET s == v[i] + c
         IN  AddLimbs([v EXCEPT ![i] = s % Base], s \div Base, i + 1)

RECURSIVE MulLimbs(_, _, _, _)
\* v * k + c on limbs from position i on, modulo 2^(16 * Len(v)); k < 2^15
MulLimbs(v, k, c, i) ==
    IF i > Len(v) THEN v
    ELSE LET s == v[i] * k + c
         IN  MulLimbs([v EXCEPT ![i] = s % Base], k, s \div Base, i + 1)

RECURSIVE Dec64(_)
\* a 64-bit value from its decimal digits in groups of three, most
\* significant group first: Dec64(<<300, 0, 0, 0>>) is 300,000,000,000
Dec64(groups) ==
    IF groups = <<>> THEN U64(0)
    ELSE AddLimbs(MulLimbs(Dec64(SubSeq(groups, 1, Len(groups) - 1)), 1000, 0, 1),
                  groups[Len(groups)], 1)

\* v & 0xffffffffUL, as a 64-bit value
Mask32(v) == <<v[1], v[2], 0, 0>>

\* v >> 32 of a signed 64-bit v (arithmetic shift: the sign bit fills)
Shr32(v) ==
    LET fill == IF v[4] >= Base \div 2 THEN Base - 1 ELSE 0
    IN  <<v[3], v[4], fill, fill>>

\* conversion of a 64-bit value to gcov_unsigned_t on assignment
Trunc32(v) == <<v[1], v[2]>>

RECURSIVE ConcatAll(_)
ConcatAll(ss) == IF ss = <<>> THEN <<>> ELSE Head(ss) \o ConcatAll(Tail(ss))

RECURSIVE SumAll(_)
SumAll(s) == IF s = <<>> THEN 0 ELSE Head(s) + SumAll(Tail(s))

(* ------------------------- format constants ---------------------------- *)
GCOV_DATA_MAGIC == W32(\h6763, \h6461)

GCOV_TAG_FUNCTION == W32(\h0100, 0)

GCOV_TAG_FUNCTION_LENGTH == 3

GCOV_TAG_COUNTER_BASE == W32(\h01a1, 0)

\* GCOV_TAG_COUNTER_BASE + (COUNT << 17)
GCOV_TAG_FOR_COUNTER(ct) == W32(GCOV_TAG_COUNTER_BASE[2] + 2 * ct, GCOV_TAG_COUNTER_BASE[1])

\* NUM * 2
GCOV_TAG_COUNTER_LENGTH(num) == U32(num * 2)

\* sizeof(*buffer), the size of a gcov_unsigned_t
SizeofWord == 4

(* ------------------------------ the unit ------------------------------- *)
\* counter values units start with, handed out in traversal order
SeedValues ==
    << U64(5), Dec64(<<300, 0, 0, 0>>),
       <<Base - 1, Base - 1, 0, 0>>,
       <<Base - 1, Base - 1, Base - 1, Base - 1>>,
       U64(0) >>

\* the seeds the first counter of a unit may start with
SeedStarts == {0, 2}

\* number of non-null entries of a merge array
NActive(merge) == Cardinality({s \in 1..Len(merge) : merge[s]})

\* nums of every group of every function: sh[f][k]
Shapes(nf, a) ==
    { sh \in [1..nf -> [1..a -> 0..MaxNum]] :
        SumAll([f \in 1..nf |-> SumAll(sh[f])]) <= MaxCounters }

\* counters that precede group k of function f in traversal order
Before(sh, f, k) ==
    SumAll([g \in 1..(f - 1) |-> SumAll(sh[g])]) + SumAll(SubSeq(sh[f], 1, k - 1))

\* struct gcov_info with its gcov_fn_info and gcov_ctr_info: every function
\* carries one group per non-null merge entry
BuildUnit(m, nf, sh, sums, r) ==
    [version |-> W32(0, \h1234), stamp |-> U32(100), checksum |-> U32(200),
     filename |-> "unit.gcda", merge |-> m, n_functions |-> nf,
     functions |->
        [f \in 1..nf |->
            [ident |-> U32(7 + f - 1),
             lineno_checksum |-> IF sums THEN W32(\hAAAA, f) ELSE U32(0),
             cfg_checksum |-> IF sums THEN W32(\hCCCC, f) ELSE U32(0),
             ctrs |->
                [k \in 1..NActive(m) |->
                    [num |-> sh[f][k],
                     values |->
                        [i \in 1..sh[f][k] |->
                            SeedValues[((Before(sh, f, k) + i - 1 + r) % Len(SeedValues)) + 1]]]]]]]

\* the structurally valid units with the given checksum and seed choices
UnitsWith(sumsSet, starts) ==
    UNION { UNION {
        { BuildUnit(m, nf, sh, sums, r) :
            sh \in Shapes(nf, NActive(m)), sums \in sumsSet, r \in starts }
        : nf \in 0..MaxFunctions }
        : m \in [1..GCOV_COUNTERS -> BOOLEAN] }

\* the units a run may start from
Units == UnitsWith(BOOLEAN, SeedStarts)

\* the units the preemptive runs start from: the first counter is one
\* increment away from a carry into its high word
RaceUnits == UnitsWith({FALSE}, {2})

\* the units the runs with overlapping calls start from
AnyUnits ==
    { u \in RaceUnits :
        SumAll([f \in 1..u.n_functions |->
            SumAll([k \in 1..Len(u.functions[f].ctrs) |-> u.functions[f].ctrs[k].num])]) <= 1 }

(* ------------------------------- state --------------------------------- *)
VARIABLES
    gi,          \* the struct gcov_info both operations are handed
    sched,       \* how the embedding program runs the three processes
    \* gcov_convert_to_gcda: position, arguments and locals
    pc, buffer, pos, fi_idx, ct_idx, cv_idx, ci, lo_w, ret,
    \* gcov_clear_counters: position and locals
    cpc, c_fi_idx, c_ct_idx, c_cv_idx, c_ci,
    \* the instrumented program: position, counter addressed, value loaded
    ipc, itgt, itmp, n_incs,
    \* what the caller keeps of earlier calls, and how many it made
    last_size, prev_out, n_enc, n_clr,
    \* history: what changed the counters, and what the unit held meanwhile
    ev_prev, ev_cur, enc_seen, enc_raced, enc_verdict, clr_pre, clr_raced, clr_ret

encVars == <<pc, buffer, pos, fi_idx, ct_idx, cv_idx, ci, lo_w, ret>>

clrVars == <<cpc, c_fi_idx, c_ct_idx, c_cv_idx, c_ci>>

incVars == <<ipc, itgt, itmp, n_incs>>

callerVars == <<last_size, prev_out, n_enc, n_clr>>

encHist == <<ev_prev, enc_seen, enc_raced, enc_verdict>>

clrHist == <<clr_pre, clr_raced, clr_ret>>

vars == <<gi, sched, encVars, clrVars, incVars, callerVars, ev_cur, encHist, clrHist>>

(* ------------------------------ the buffer ------------------------------ *)
\* a buffer word nothing has been stored to
Uninit == <<-1, -1>>

\* buffer == NULL
NullBuffer == [null |-> TRUE, mem |-> <<>>, log |-> <<>>, over |-> FALSE]

\* a caller's buffer of the given number of words; log and over record the
\* offsets stored to and whether one of them lay outside the buffer
NewBuffer(words) ==
    [null |-> FALSE, mem |-> [i \in 1..words |-> Uninit], log |-> <<>>, over |-> FALSE]

\* buffer[off] = w
Poke(b, off, w) ==
    IF off < Len(b.mem)
    THEN [b EXCEPT !.mem[off + 1] = w, !.log = Append(@, off)]
    ELSE [b EXCEPT !.over = TRUE, !.log = Append(@, off)]

store_gcov_unsigned(b, off, v) ==
    [buffer |-> IF b.null THEN b ELSE Poke(b, off, v),
     n |-> 1]

\* mutation: the count is returned from inside the if (buffer) branch
store_gcov_tag_length_counted_in_if(b, off, tag, length) ==
    [buffer |-> IF b.null THEN b ELSE Poke(Poke(b, off, tag), off + 1, length),
     n |-> IF b.null THEN 0 ELSE 2]

store_gcov_tag_length(b, off, tag, length) ==
    [buffer |-> IF b.null THEN b ELSE Poke(Poke(b, off, tag), off + 1, length),
     n |-> 2]

\* mutation: the high word is stored first
store_gcov_counter_high_first(b, off, v) ==
    [buffer |-> IF b.null THEN b
                ELSE Poke(Poke(b, off, Trunc32(Shr32(v))), off + 1, Trunc32(Mask32(v))),
     n |-> 2]

\* mutation: the low word is masked with 0xffff
store_gcov_counter_mask16(b, off, v) ==
    [buffer |-> IF b.null THEN b
                ELSE Poke(Poke(b, off, <<v[1], 0>>), off + 1, Trunc32(Shr32(v))),
     n |-> 2]

\* mutation: a counter that is zero is left out of the stream
store_gcov_counter_skip_zero(b, off, v) ==
    IF v = U64(0) THEN [buffer |-> b, n |-> 0]
    ELSE [buffer |-> IF b.null THEN b
                     ELSE Poke(Poke(b, off, Trunc32(Mask32(v))), off + 1, Trunc32(Shr32(v))),
          n |-> 2]

store_gcov_counter(b, off, v) ==
    [buffer |-> IF b.null THEN b
                ELSE Poke(Poke(b, off, Trunc32(Mask32(v))), off + 1, Trunc32(Shr32(v))),
     n |-> 2]

(* ------------------------------ scheduling ------------------------------ *)
\* "sync": single-threaded, nothing interleaves.  "irq_incr": the program's
\* increments preempt a running call.  "irq_any": calls preempt each other too.
Scheds == {"sync", "irq_incr", "irq_any"}

EncRunning == pc \notin {"idle", "done"}

ClrRunning == cpc \notin {"idle", "done"}

EncMayStart ==
    /\ pc = "idle"
    /\ sched = "irq_any" \/ cpc = "idle"
    /\ sched # "sync" \/ ipc = "idle"

ClrMayStart ==
    /\ cpc = "idle"
    /\ sched = "irq_any" \/ pc = "idle"
    /\ sched # "sync" \/ ipc = "idle"

IncMayStart ==
    /\ ipc = "idle"
    /\ sched # "sync" \/ (pc = "idle" /\ cpc = "idle")

(* ------------------------------- history -------------------------------- *)
\* the histories are kept only under the schedules whose properties read
\* them: earlier outputs when nothing interleaves, the values the unit held
\* during a call unless calls overlap each other
KeepsOutputs == sched = "sync"

KeepsHeld == sched # "irq_any"

\* every counter value of the unit, in traversal order
FlatValues(fns) ==
    ConcatAll([f \in 1..Len(fns) |->
        ConcatAll([k \in 1..Len(fns[f].ctrs) |-> fns[f].ctrs[k].values])])

\* words a function's records occupy
FnWords(fn) == 5 + SumAll([k \in 1..Len(fn.ctrs) |-> 2 + 2 * fn.ctrs[k].num])

\* buffer offset of the low word of every counter value, in traversal order
FlatOffsets(fns) ==
    ConcatAll([f \in 1..Len(fns) |->
        ConcatAll([k \in 1..Len(fns[f].ctrs) |->
            [i \in 1..fns[f].ctrs[k].num |->
                4 + SumAll([g \in 1..(f - 1) |-> FnWords(fns[g])])
                  + 5 + SumAll([h \in 1..(k - 1) |-> 2 + 2 * fns[f].ctrs[h].num])
                  + 2 + 2 * (i - 1)]])])

\* the counter values a filled buffer carries, in traversal order
EmittedValues(b, fns) ==
    LET offs == FlatOffsets(fns)
    IN  [j \in 1..Len(offs) |-> Join64(b.mem[offs[j] + 1], b.mem[offs[j] + 2])]

\* what a finished fill call emitted, against what the unit held during it:
\* "torn" when some emitted value is one its counter never held, "mixed" when
\* every value was held but never all of them at one instant
Verdict(b, fns, seen) ==
    IF b.null \/ b.over
       \/ Len(b.mem) # 4 + SumAll([f \in 1..Len(fns) |-> FnWords(fns[f])])
    THEN "none"
    ELSE LET out == EmittedValues(b, fns)
         IN  IF out \in seen THEN "ok"
             ELSE IF \E j \in 1..Len(out) : \A s \in seen : s[j] # out[j] THEN "torn"
             ELSE "mixed"

\* some counter of an active group is not zero
SomeNonzero(fns) == \E j \in 1..Len(FlatValues(fns)) : FlatValues(fns)[j] # U64(0)

\* a store to a counter by process kind: the histories it feeds
Touched(kind, fns) ==
    /\ ev_cur' = ev_cur \cup {kind}
    /\ enc_seen' = IF EncRunning /\ ~buffer.null /\ KeepsHeld
                   THEN enc_seen \cup {FlatValues(fns)}
                   ELSE enc_seen
    /\ enc_raced' = (enc_raced \/ (kind = "inc" /\ EncRunning))
    /\ clr_raced' = (clr_raced \/ (kind = "inc" /\ ClrRunning))

(* ------------------------------- Init ----------------------------------- *)
\* the unit of a program without instrumented code
NoUnit == BuildUnit([s \in 1..GCOV_COUNTERS |-> FALSE], 0, <<>>, FALSE, 0)

NoOut == [has |-> FALSE, mem |-> <<>>, ret |-> 0]

Init ==
    /\ gi \in Units
    /\ sched \in Scheds
    /\ pc = "idle" /\ buffer = NullBuffer /\ pos = 0
    /\ fi_idx = 0 /\ ct_idx = 0 /\ cv_idx = 0 /\ ci = 0 /\ lo_w = Uninit /\ ret = 0
    /\ cpc = "idle" /\ c_fi_idx = 0 /\ c_ct_idx = 0 /\ c_cv_idx = 0 /\ c_ci = 0
    /\ ipc = "idle" /\ itgt = <<0, 0, 0>> /\ itmp = U64(0) /\ n_incs = 0
    /\ last_size = -1 /\ prev_out = NoOut /\ n_enc = 0 /\ n_clr = 0
    /\ ev_prev = {} /\ ev_cur = {} /\ enc_seen = {} /\ enc_raced = FALSE
    /\ enc_verdict = "none"
    /\ clr_pre = NoUnit /\ clr_raced = FALSE /\ clr_ret = "none"

(* ------------------------ gcov_convert_to_gcda -------------------------- *)
\* the call, and the file header
EncCall(fill) ==
    /\ EncMayStart
    /\ n_enc < MaxEncCalls
    /\ n_enc' = n_enc + 1
    /\ fill => last_size >= 0
    /\ LET b0 == IF fill THEN NewBuffer(last_size \div SizeofWord) ELSE NullBuffer
           s1 == store_gcov_tag_length(b0, 0, GCOV_DATA_MAGIC, gi.version)
           p1 == 0 + s1.n
           s2 == store_gcov_unsigned(s1.buffer, p1, gi.stamp)
           p2 == p1 + s2.n
           s3 == store_gcov_unsigned(s2.buffer, p2, gi.checksum)
       IN  /\ buffer' = s3.buffer
           /\ pos' = p2 + s3.n
    /\ fi_idx' = 0
    /\ pc' = "fn"
    /\ ev_prev' = IF fill /\ KeepsOutputs THEN ev_cur ELSE ev_prev
    /\ ev_cur' = IF fill THEN {} ELSE ev_cur
    /\ enc_seen' = IF fill /\ KeepsHeld THEN {FlatValues(gi.functions)} ELSE {}
    /\ enc_raced' = FALSE
    /\ enc_verdict' = "none"
    /\ UNCHANGED <<gi, sched, ct_idx, cv_idx, ci, lo_w, ret, clrVars, incVars,
                   last_size, prev_out, n_clr, clrHist>>

\* for (fi_idx ...): the function record, or the return when the loop ends
EncFunction ==
    /\ pc = "fn"
    /\ IF fi_idx < gi.n_functions
       THEN LET fi_ptr == gi.functions[fi_idx + 1]
                s1 == store_gcov_tag_length(buffer, pos, GCOV_TAG_FUNCTION,
                                            U32(GCOV_TAG_FUNCTION_LENGTH))
                p1 == pos + s1.n
                s2 == store_gcov_unsigned(s1.buffer, p1, fi_ptr.ident)
                p2 == p1 + s2.n
                s3 == store_gcov_unsigned(s2.buffer, p2, fi_ptr.lineno_checksum)
                p3 == p2 + s3.n
                s4 == store_gcov_unsigned(s3.buffer, p3, fi_ptr.cfg_checksum)
            IN  /\ buffer' = s4.buffer
                /\ pos' = p3 + s4.n
                /\ ci' = 0
                /\ ct_idx' = 0
                /\ pc' = "ct"
                /\ UNCHANGED <<ret, enc_verdict>>
       ELSE /\ ret' = pos * SizeofWord
            /\ pc' = "done"
            /\ enc_verdict' = IF KeepsHeld THEN Verdict(buffer, gi.functions, enc_seen)
                               ELSE "none"
            /\ UNCHANGED <<buffer, pos, ci, ct_idx>>
    /\ UNCHANGED <<gi, sched, fi_idx, cv_idx, lo_w, clrVars, incVars, callerVars,
                   ev_prev, ev_cur, enc_seen, enc_raced, clrHist>>

\* mutation: ci_ptr++ before the continue
EncSkip_consumes_group ==
    /\ pc = "ct"
    /\ ct_idx < GCOV_COUNTERS
    /\ ~gi.merge[ct_idx + 1]
    /\ ct_idx' = ct_idx + 1
    /\ ci' = ci + 1
    /\ UNCHANGED <<gi, sched, pc, buffer, pos, fi_idx, cv_idx, lo_w, ret, clrVars,
                   incVars, callerVars, ev_cur, encHist, clrHist>>

\* for (ct_idx ...) on a slot whose merge entry is null: continue
EncSkip ==
    /\ pc = "ct"
    /\ ct_idx < GCOV_COUNTERS
    /\ ~gi.merge[ct_idx + 1]
    /\ ct_idx' = ct_idx + 1
    /\ UNCHANGED <<gi, sched, pc, buffer, pos, fi_idx, cv_idx, ci, lo_w, ret, clrVars,
                   incVars, callerVars, ev_cur, encHist, clrHist>>

\* for (ct_idx ...) on an active slot: the counter record's tag and length
EncCounter ==
    /\ pc = "ct"
    /\ ct_idx < GCOV_COUNTERS
    /\ gi.merge[ct_idx + 1]
    /\ LET ci_ptr == gi.functions[fi_idx + 1].ctrs[ci + 1]
           s1 == store_gcov_tag_length(buffer, pos, GCOV_TAG_FOR_COUNTER(ct_idx),
                                       GCOV_TAG_COUNTER_LENGTH(ci_ptr.num))
       IN  /\ buffer' = s1.buffer
           /\ pos' = pos + s1.n
    /\ cv_idx' = 0
    /\ pc' = "cv"
    /\ UNCHANGED <<gi, sched, fi_idx, ct_idx, ci, lo_w, ret, clrVars, incVars,
                   callerVars, ev_cur, encHist, clrHist>>

\* the end of the slot loop: fi_idx++
EncNextFunction ==
    /\ pc = "ct"
    /\ ct_idx >= GCOV_COUNTERS
    /\ fi_idx' = fi_idx + 1
    /\ pc' = "fn"
    /\ UNCHANGED <<gi, sched, buffer, pos, ct_idx, cv_idx, ci, lo_w, ret, clrVars,
                   incVars, callerVars, ev_cur, encHist, clrHist>>

\* store_gcov_counter(buffer, pos, v) and cv_idx++
EncStoreValue(v) ==
    /\ LET s1 == store_gcov_counter(buffer, pos, v)
       IN  /\ buffer' = s1.buffer
           /\ pos' = pos + s1.n
    /\ cv_idx' = cv_idx + 1
    /\ pc' = "cv"
    /\ lo_w' = Uninit

\* mutation: the counter is zeroed once it has been read
EncValue_read_and_clear ==
    /\ pc = "cv"
    /\ cv_idx < gi.functions[fi_idx + 1].ctrs[ci + 1].num
    /\ EncStoreValue(gi.functions[fi_idx + 1].ctrs[ci + 1].values[cv_idx + 1])
    /\ gi' = [gi EXCEPT !.functions[fi_idx + 1].ctrs[ci + 1].values[cv_idx + 1] = U64(0)]
    /\ UNCHANGED <<sched, fi_idx, ct_idx, ci, ret, clrVars, incVars, callerVars,
                   ev_cur, encHist, clrHist>>

\* for (cv_idx ...) with values[cv_idx] read in one 64-bit access
EncValue ==
    /\ pc = "cv"
    /\ cv_idx < gi.functions[fi_idx + 1].ctrs[ci + 1].num
    /\ EncStoreValue(gi.functions[fi_idx + 1].ctrs[ci + 1].values[cv_idx + 1])
    /\ UNCHANGED <<gi, sched, fi_idx, ct_idx, ci, ret, clrVars, incVars, callerVars,
                   ev_cur, encHist, clrHist>>

\* values[cv_idx] read in two 32-bit accesses: the low word
EncValueLo ==
    /\ pc = "cv"
    /\ cv_idx < gi.functions[fi_idx + 1].ctrs[ci + 1].num
    /\ lo_w' = Trunc32(gi.functions[fi_idx + 1].ctrs[ci + 1].values[cv_idx + 1])
    /\ pc' = "cv_hi"
    /\ UNCHANGED <<gi, sched, buffer, pos, fi_idx, ct_idx, cv_idx, ci, ret, clrVars,
                   incVars, callerVars, ev_cur, encHist, clrHist>>

\* ... then the high word, and the store of the two
EncValueHi ==
    /\ pc = "cv_hi"
    /\ EncStoreValue(Join64(lo_w,
           Trunc32(Shr32(gi.functions[fi_idx + 1].ctrs[ci + 1].values[cv_idx + 1]))))
    /\ UNCHANGED <<gi, sched, fi_idx, ct_idx, ci, ret, clrVars, incVars, callerVars,
                   ev_cur, encHist, clrHist>>

\* mutation: ci_ptr++ is missing
EncNextCounter_keeps_group ==
    /\ pc = "cv"
    /\ cv_idx >= gi.functions[fi_idx + 1].ctrs[ci + 1].num
    /\ ct_idx' = ct_idx + 1
    /\ pc' = "ct"
    /\ UNCHANGED <<gi, sched, buffer, pos, fi_idx, cv_idx, ci, lo_w, ret, clrVars,
                   incVars, callerVars, ev_cur, encHist, clrHist>>

\* the end of the value loop: ci_ptr++ and ct_idx++
EncNextCounter ==
    /\ pc = "cv"
    /\ cv_idx >= gi.functions[fi_idx + 1].ctrs[ci + 1].num
    /\ ci' = ci + 1
    /\ ct_idx' = ct_idx + 1
    /\ pc' = "ct"
    /\ UNCHANGED <<gi, sched, buffer, pos, fi_idx, cv_idx, lo_w, ret, clrVars, incVars,
                   callerVars, ev_cur, encHist, clrHist>>

\* the caller takes the result: the size for a later buffer, or the output
EncReturn ==
    /\ pc = "done"
    /\ pc' = "idle"
    /\ last_size' = IF buffer.null THEN ret ELSE last_size
    /\ prev_out' = IF buffer.null \/ ~KeepsOutputs THEN prev_out
                   ELSE [has |-> TRUE, mem |-> buffer.mem, ret |-> ret]
    /\ buffer' = NullBuffer /\ pos' = 0 /\ ret' = 0
    /\ fi_idx' = 0 /\ ct_idx' = 0 /\ cv_idx' = 0 /\ ci' = 0
    /\ enc_seen' = {} /\ enc_raced' = FALSE
    /\ UNCHANGED <<gi, sched, lo_w, clrVars, incVars, n_enc, n_clr, ev_prev, ev_cur,
                   enc_verdict, clrHist>>

(* ------------------------- gcov_clear_counters -------------------------- *)
\* values[i] = v of group k of function f (all counted from 1)
SetValue(g, f, k, i, v) == [g EXCEPT !.functions[f].ctrs[k].values[i] = v]

\* the call
ClrCall ==
    /\ ClrMayStart
    /\ n_clr < MaxClrCalls
    /\ n_clr' = n_clr + 1
    /\ cpc' = "fn"
    /\ c_fi_idx' = 0
    /\ clr_pre' = IF KeepsOutputs THEN gi ELSE NoUnit
    /\ clr_raced' = FALSE
    /\ clr_ret' = "none"
    /\ ev_cur' = ev_cur \cup {"clr"}
    /\ UNCHANGED <<gi, sched, encVars, c_ct_idx, c_cv_idx, c_ci, incVars, last_size,
                   prev_out, n_enc, encHist>>

\* for (fi_idx ...): the next function, or the return when the loop ends
ClrFunction ==
    /\ cpc = "fn"
    /\ IF c_fi_idx < gi.n_functions
       THEN /\ c_ci' = 0
            /\ c_ct_idx' = 0
            /\ cpc' = "ct"
            /\ UNCHANGED clr_ret
       ELSE /\ cpc' = "done"
            /\ clr_ret' = IF ~KeepsHeld THEN "none"
                           ELSE IF SomeNonzero(gi.functions) THEN "dirty" ELSE "clean"
            /\ UNCHANGED <<c_ci, c_ct_idx>>
    /\ UNCHANGED <<gi, sched, encVars, c_fi_idx, c_cv_idx, incVars, callerVars, ev_cur,
                   encHist, clr_pre, clr_raced>>

\* for (ct_idx ...) on a slot whose merge entry is null: continue
ClrSkip ==
    /\ cpc = "ct"
    /\ c_ct_idx < GCOV_COUNTERS
    /\ ~gi.merge[c_ct_idx + 1]
    /\ c_ct_idx' = c_ct_idx + 1
    /\ UNCHANGED <<gi, sched, encVars, cpc, c_fi_idx, c_cv_idx, c_ci, incVars,
                   callerVars, ev_cur, encHist, clrHist>>

\* for (ct_idx ...) on an active slot: enter the value loop
ClrCounter ==
    /\ cpc = "ct"
    /\ c_ct_idx < GCOV_COUNTERS
    /\ gi.merge[c_ct_idx + 1]
    /\ c_cv_idx' = 0
    /\ cpc' = "cv"
    /\ UNCHANGED <<gi, sched, encVars, c_fi_idx, c_ct_idx, c_ci, incVars, callerVars,
                   ev_cur, encHist, clrHist>>

\* the end of the slot loop: fi_idx++
ClrNextFunction ==
    /\ cpc = "ct"
    /\ c_ct_idx >= GCOV_COUNTERS
    /\ c_fi_idx' = c_fi_idx + 1
    /\ cpc' = "fn"
    /\ UNCHANGED <<gi, sched, encVars, c_ct_idx, c_cv_idx, c_ci, incVars, callerVars,
                   ev_cur, encHist, clrHist>>

\* mutation: the store is 32 bits wide
ClearValue_low_word_only(g, f, k, i) ==
    SetValue(g, f, k, i, Join64(U32(0), Trunc32(Shr32(g.functions[f].ctrs[k].values[i]))))

\* mutation: the value loop stops one short (cv_idx < num - 1)
ClearValue_one_short(g, f, k, i) ==
    IF i = g.functions[f].ctrs[k].num THEN g ELSE SetValue(g, f, k, i, U64(0))

\* ci_ptr->values[cv_idx] = 0
ClearValue(g, f, k, i) == SetValue(g, f, k, i, U64(0))

\* the low word of that store, when it takes two 32-bit accesses
ClearValueLo(g, f, k, i) ==
    SetValue(g, f, k, i, Join64(U32(0), Trunc32(Shr32(g.functions[f].ctrs[k].values[i]))))

\* mutation: the high word is never stored
ClearValueHi_not_stored(g, f, k, i) == g

\* ... and its high word
ClearValueHi(g, f, k, i) ==
    SetValue(g, f, k, i, Join64(Trunc32(g.functions[f].ctrs[k].values[i]), U32(0)))

\* for (cv_idx ...) with the store done in one 64-bit access
ClrValue ==
    /\ cpc = "cv"
    /\ c_cv_idx < gi.functions[c_fi_idx + 1].ctrs[c_ci + 1].num
    /\ gi' = ClearValue(gi, c_fi_idx + 1, c_ci + 1, c_cv_idx + 1)
    /\ c_cv_idx' = c_cv_idx + 1
    /\ Touched("clr", gi'.functions)
    /\ UNCHANGED <<sched, encVars, cpc, c_fi_idx, c_ct_idx, c_ci, incVars, callerVars,
                   ev_prev, enc_verdict, clr_pre, clr_ret>>

\* the store done in two 32-bit accesses: the low word
ClrValueLo ==
    /\ cpc = "cv"
    /\ c_cv_idx < gi.functions[c_fi_idx + 1].ctrs[c_ci + 1].num
    /\ gi' = ClearValueLo(gi, c_fi_idx + 1, c_ci + 1, c_cv_idx + 1)
    /\ cpc' = "cv_hi"
    /\ Touched("clr", gi'.functions)
    /\ UNCHANGED <<sched, encVars, c_fi_idx, c_ct_idx, c_cv_idx, c_ci, incVars,
                   callerVars, ev_prev, enc_verdict, clr_pre, clr_ret>>

\* ... then the high word
ClrValueHi ==
    /\ cpc = "cv_hi"
    /\ gi' = ClearValueHi(gi, c_fi_idx + 1, c_ci + 1, c_cv_idx + 1)
    /\ c_cv_idx' = c_cv_idx + 1
    /\ cpc' = "cv"
    /\ Touched("clr", gi'.functions)
    /\ UNCHANGED <<sched, encVars, c_fi_idx, c_ct_idx, c_ci, incVars, callerVars,
                   ev_prev, enc_verdict, clr_pre, clr_ret>>

\* the end of the value loop: ci_ptr++ and ct_idx++
ClrNextCounter ==
    /\ cpc = "cv"
    /\ c_cv_idx >= gi.functions[c_fi_idx + 1].ctrs[c_ci + 1].num
    /\ c_ci' = c_ci + 1
    /\ c_ct_idx' = c_ct_idx + 1
    /\ cpc' = "ct"
    /\ UNCHANGED <<gi, sched, encVars, c_fi_idx, c_cv_idx, incVars, callerVars, ev_cur,
                   encHist, clrHist>>

\* the caller goes on after the reset returned
ClrReturn ==
    /\ cpc = "done"
    /\ cpc' = "idle"
    /\ c_fi_idx' = 0 /\ c_ct_idx' = 0 /\ c_cv_idx' = 0 /\ c_ci' = 0
    /\ clr_pre' = NoUnit /\ clr_raced' = FALSE /\ clr_ret' = "none"
    /\ UNCHANGED <<gi, sched, encVars, incVars, callerVars, ev_cur, encHist>>

(* ---------------------- the instrumented program ------------------------ *)
\* counter++ on values[i] of group k of function f: the load
IncLoad(f, k, i) ==
    /\ IncMayStart
    /\ n_incs < MaxIncs
    /\ f \in 1..gi.n_functions
    /\ k \in 1..Len(gi.functions[f].ctrs)
    /\ i \in 1..gi.functions[f].ctrs[k].num
    /\ itgt' = <<f, k, i>>
    /\ itmp' = gi.functions[f].ctrs[k].values[i]
    /\ ipc' = "loaded"
    /\ UNCHANGED <<gi, sched, encVars, clrVars, n_incs, callerVars, ev_cur, encHist,
                   clrHist>>

\* ... and the store of the loaded value plus one
IncStore ==
    /\ ipc = "loaded"
    /\ gi' = SetValue(gi, itgt[1], itgt[2], itgt[3], AddLimbs(itmp, 1, 1))
    /\ ipc' = "idle"
    /\ itgt' = <<0, 0, 0>>
    /\ itmp' = U64(0)
    /\ n_incs' = n_incs + 1
    /\ Touched("inc", gi'.functions)
    /\ UNCHANGED <<sched, encVars, clrVars, callerVars, ev_prev, enc_verdict, clr_pre,
                   clr_ret>>

(* ---------------------------- specifications ---------------------------- *)
Next ==
    \/ \E fill \in BOOLEAN : EncCall(fill)
    \/ EncFunction
    \/ EncSkip
    \/ EncCounter
    \/ EncNextFunction
    \/ EncValue
    \/ EncValueLo
    \/ EncValueHi
    \/ EncNextCounter
    \/ EncReturn
    \/ ClrCall
    \/ ClrFunction
    \/ ClrSkip
    \/ ClrCounter
    \/ ClrNextFunction
    \/ ClrValue
    \/ ClrValueLo
    \/ ClrValueHi
    \/ ClrNextCounter
    \/ ClrReturn
    \/ \E f \in 1..MaxFunctions, k \in 1..GCOV_COUNTERS, i \in 1..MaxNum : IncLoad(f, k, i)
    \/ IncStore

\* single-threaded: encode, reset and the program's increments take turns
InitSync == Init /\ sched = "sync"

Spec == InitSync /\ [][Next]_vars

\* the program's increments preempt a running encode or reset
InitIncr == Init /\ sched = "irq_incr" /\ gi \in RaceUnits

SpecIncr == InitIncr /\ [][Next]_vars

\* encode and reset preempt each other as well
InitAny == Init /\ sched = "irq_any" /\ gi \in AnyUnits

SpecAny == InitAny /\ [][Next]_vars

(* ------------------------- the reference layout ------------------------- *)
\* the slots with a merge entry, ascending, counted from 0
ActiveSlots(merge) ==
    SelectSeq([s \in 1..Len(merge) |-> s - 1], LAMBDA c : merge[c + 1])

\* a counter value as the gcda format carries it: v mod 2^32, then v div 2^32
RefValueWords(v) == <<SubSeq(v, 1, 2), SubSeq(v, 3, 4)>>

RefCounter(slot, grp) ==
    <<GCOV_TAG_FOR_COUNTER(slot), U32(2 * Len(grp.values))>>
        \o ConcatAll([i \in 1..Len(grp.values) |-> RefValueWords(grp.values[i])])

RefFunction(fn, slots) ==
    <<GCOV_TAG_FUNCTION, U32(3), fn.ident, fn.lineno_checksum, fn.cfg_checksum>>
        \o ConcatAll([k \in 1..Len(slots) |-> RefCounter(slots[k], fn.ctrs[k])])

RefLayout(g) ==
    <<GCOV_DATA_MAGIC, g.version, g.stamp, g.checksum>>
        \o ConcatAll([f \in 1..g.n_functions |->
                         RefFunction(g.functions[f], ActiveSlots(g.merge))])

\* number of counter values of a unit's functions
TotalCounters(fns) == Len(FlatValues(fns))

\* a fill call has just returned
FillDone == pc = "done" /\ ~buffer.null

(* -------------------------------- claims -------------------------------- *)
\* C1: a fill call returns the byte count N the size-only call returned, and
\* stores to exactly the word offsets 0 .. N/4-1, each once and in ascending
\* order, never at offset N/4 or beyond.
C1_SizeEqualsFill ==
    FillDone =>
        /\ ret = last_size
        /\ buffer.log = [j \in 1..(ret \div 4) |-> j - 1]
        /\ ~buffer.over

C1_Witness ==
    /\ FillDone
    /\ gi.n_functions = 2
    /\ TotalCounters(gi.functions) = 2
    /\ Len(buffer.log) > 4

\* C2: the words a fill call writes are the reference layout of the unit:
\* header, then per function its record and, per active slot, tag, length
\* 2*num and the values low word first.
C2_Layout == FillDone => buffer.mem = RefLayout(gi)

C2_Witness ==
    /\ FillDone
    /\ gi.n_functions = 2
    /\ NActive(gi.merge) = 2
    /\ \E f \in 1..2, k \in 1..2 :
          /\ gi.functions[f].ctrs[k].num = 2
          /\ gi.functions[f].ctrs[k].values[2] = Dec64(<<300, 0, 0, 0>>)

\* the unit of the end-to-end scenario: only the arc-count slot (slot 0)
\* active, one function, counter values {5, 300000000000}
ScenarioUnit ==
    [version |-> W32(0, \h1234), stamp |-> U32(100), checksum |-> U32(200),
     filename |-> "unit.gcda", merge |-> [s \in 1..GCOV_COUNTERS |-> s = 1],
     n_functions |-> 1,
     functions |-> << [ident |-> U32(7), lineno_checksum |-> U32(0),
                       cfg_checksum |-> U32(0),
                       ctrs |-> << [num |-> 2,
                                    values |-> <<U64(5), Dec64(<<300, 0, 0, 0>>)>>] >>] >>]

ScenarioWords(lo) ==
    << GCOV_DATA_MAGIC, W32(0, \h1234), U32(100), U32(200),
       GCOV_TAG_FUNCTION, U32(3), U32(7), U32(0), U32(0),
       GCOV_TAG_FOR_COUNTER(0), U32(4), U32(5), U32(0), lo, U32(\h45) >>

\* C3 as stated: the scenario unit encodes to 15 words (60 bytes) whose
\* fourteenth word, the low word of 300000000000, is 0xD693A400.
C3_AsStated ==
    (FillDone /\ gi = ScenarioUnit) =>
        (buffer.mem = ScenarioWords(W32(\hD693, \hA400)) /\ ret = 60)

\* C3, amended: the scenario unit encodes to 15 words (60 bytes) as listed,
\* with 0xD964B800 as the low word of 300000000000 (0x45D964B800).
C3_Scenario ==
    (FillDone /\ gi = ScenarioUnit) =>
        (buffer.mem = ScenarioWords(W32(\hD964, \hB800)) /\ ret = 60)

C3_Witness == FillDone /\ gi = ScenarioUnit

\* the unit with every counter value of every group set to zero
ZeroCounters(g) ==
    [g EXCEPT !.functions =
        [f \in 1..Len(@) |->
            [@[f] EXCEPT !.ctrs =
                [k \in 1..Len(@) |->
                    [@[k] EXCEPT !.values = [i \in 1..Len(@) |-> U64(0)]]]]]]

\* C4: when gcov_clear_counters returns, every value of every active group
\* is 0 and everything else of the unit is as it was before the call.
C4_ClearFrame == cpc = "done" => gi = ZeroCounters(clr_pre)

C4_Witness ==
    /\ cpc = "done"
    /\ TotalCounters(clr_pre.functions) = 2
    /\ \A j \in 1..2 : FlatValues(clr_pre.functions)[j] # U64(0)
    /\ NActive(gi.merge) < GCOV_COUNTERS

(* ---------- reading a gcda stream back, record by record ---------------- *)
\* the number a small 32-bit word stands for
ToNat(w) == w[1] + Base * w[2]

NoParse == [ok |-> FALSE, recs |-> <<>>, next |-> 0]

RECURSIVE ParseCounters(_, _)
\* the counter records from offset p up to the next function record
ParseCounters(mem, p) ==
    IF p = Len(mem) \/ (p < Len(mem) /\ mem[p + 1] = GCOV_TAG_FUNCTION)
    THEN [ok |-> TRUE, recs |-> <<>>, next |-> p]
    ELSE IF p + 2 > Len(mem) \/ mem[p + 2][1] < 0 \/ mem[p + 2][2] # 0
              \/ ToNat(mem[p + 2]) % 2 # 0
    THEN NoParse
    ELSE LET len == ToNat(mem[p + 2])
         IN  IF p + 2 + len > Len(mem) THEN NoParse
             ELSE LET rest == ParseCounters(mem, p + 2 + len)
                      rec == [tag |-> mem[p + 1],
                              values |-> [i \in 1..(len \div 2) |->
                                  Join64(mem[p + 2 * i + 1], mem[p + 2 * i + 2])]]
                  IN  [ok |-> rest.ok, recs |-> <<rec>> \o rest.recs, next |-> rest.next]

RECURSIVE ParseFunctions(_, _)
\* the function records from offset p to the end of the stream
ParseFunctions(mem, p) ==
    IF p = Len(mem) THEN [ok |-> TRUE, recs |-> <<>>, next |-> p]
    ELSE IF p + 5 > Len(mem) \/ mem[p + 1] # GCOV_TAG_FUNCTION \/ mem[p + 2] # U32(3)
    THEN NoParse
    ELSE LET grps == ParseCounters(mem, p + 5)
         IN  IF ~grps.ok THEN NoParse
             ELSE LET rest == ParseFunctions(mem, grps.next)
                      rec == [ident |-> mem[p + 3], lineno_checksum |-> mem[p + 4],
                              cfg_checksum |-> mem[p + 5], groups |-> grps.recs]
                  IN  [ok |-> rest.ok, recs |-> <<rec>> \o rest.recs, next |-> rest.next]

\* C5: read back record by record, the output holds the unit's functions in
\* index order, and within each function one counter record per active slot
\* in ascending slot order, the k-th carrying the tag of the k-th active slot
\* and the num and values of the function's k-th group.
C5_OrderPreserved ==
    FillDone =>
        LET r == ParseFunctions(buffer.mem, 4)
            slots == ActiveSlots(gi.merge)
        IN  /\ r.ok
            /\ Len(r.recs) = gi.n_functions
            /\ \A f \in 1..Len(r.recs) :
                  /\ r.recs[f].ident = gi.functions[f].ident
                  /\ r.recs[f].lineno_checksum = gi.functions[f].lineno_checksum
                  /\ r.recs[f].cfg_checksum = gi.functions[f].cfg_checksum
                  /\ [k \in 1..Len(r.recs[f].groups) |-> r.recs[f].groups[k].tag]
                        = [k \in 1..Len(slots) |-> GCOV_TAG_FOR_COUNTER(slots[k])]
                  /\ \A k \in 1..Len(r.recs[f].groups) :
                        /\ Len(r.recs[f].groups[k].values) = gi.functions[f].ctrs[k].num
                        /\ r.recs[f].groups[k].values = gi.functions[f].ctrs[k].values

C5_Witness ==
    /\ FillDone
    /\ gi.n_functions = 2
    /\ NActive(gi.merge) = 2
    /\ \/ gi.functions[1].ctrs[1].num = 1 /\ gi.functions[1].ctrs[2].num = 1
       \/ gi.functions[1].ctrs[2].num = 1 /\ gi.functions[2].ctrs[1].num = 1

\* active slots below slot ct
ActiveBelow(merge, ct) == Cardinality({c \in 0..(ct - 1) : merge[c + 1]})

\* a step of the encoder, of the reset, on a slot whose merge entry is null
EncOnAbsentSlot ==
    /\ pc = "ct" /\ ct_idx < GCOV_COUNTERS /\ ~gi.merge[ct_idx + 1]
    /\ encVars' # encVars

ClrOnAbsentSlot ==
    /\ cpc = "ct" /\ c_ct_idx < GCOV_COUNTERS /\ ~gi.merge[c_ct_idx + 1]
    /\ clrVars' # clrVars

\* C6: on a slot whose merge entry is null the encoder only moves on to the
\* next slot: no word is stored, the offset and the group cursor stay, and
\* the reset likewise stores nothing and keeps its cursor; so the group
\* cursor always counts the active slots passed.
C6_AbsentSlotSkipped ==
    /\ [](pc \in {"ct", "cv", "cv_hi"} => ci = ActiveBelow(gi.merge, ct_idx))
    /\ [](cpc \in {"ct", "cv", "cv_hi"} => c_ci = ActiveBelow(gi.merge, c_ct_idx))
    /\ [][/\ EncOnAbsentSlot =>
               /\ ct_idx' = ct_idx + 1
               /\ UNCHANGED <<gi, pc, buffer, pos, ci, fi_idx, ret>>
          /\ ClrOnAbsentSlot =>
               /\ c_ct_idx' = c_ct_idx + 1
               /\ UNCHANGED <<gi, cpc, c_ci, c_fi_idx>>]_vars

C6_Witness ==
    /\ pc = "cv" /\ ~buffer.null
    /\ fi_idx = 1
    /\ ct_idx > ci
    /\ cv_idx = 1
    /\ n_clr = 1 /\ cpc = "idle"

\* C7: a fill call that follows another with no increment and no reset since
\* the earlier one began returns the same count and the same buffer contents.
C7_Idempotent ==
    (FillDone /\ prev_out.has /\ ev_prev = {} /\ ev_cur = {}) =>
        (ret = prev_out.ret /\ buffer.mem = prev_out.mem)

C7_Witness ==
    /\ FillDone /\ prev_out.has /\ ev_prev = {} /\ ev_cur = {}
    /\ TotalCounters(gi.functions) = 2
    /\ SomeNonzero(gi.functions)

\* offsets of the words that carry counter values
ValueWordOffsets(fns) ==
    LET offs == FlatOffsets(fns)
    IN  {offs[j] : j \in 1..Len(offs)} \cup {offs[j] + 1 : j \in 1..Len(offs)}

\* C8: a fill call after a reset (and nothing else since the previous fill
\* call began) returns the previous count and repeats the previous output
\* word for word, except that every counter value word is 0.
C8_ResetThenEncode ==
    (FillDone /\ prev_out.has /\ ev_prev = {"clr"} /\ ev_cur = {}) =>
        /\ ret = prev_out.ret
        /\ Len(buffer.mem) = Len(prev_out.mem)
        /\ \A o \in 0..(Len(buffer.mem) - 1) :
              buffer.mem[o + 1] = IF o \in ValueWordOffsets(gi.functions)
                                  THEN U32(0) ELSE prev_out.mem[o + 1]

C8_Witness ==
    /\ FillDone /\ prev_out.has /\ ev_prev = {"clr"} /\ ev_cur = {}
    /\ TotalCounters(gi.functions) = 2
    /\ \A o \in ValueWordOffsets(gi.functions) : prev_out.mem[o + 1] # U32(0)

\* C9: with no increment stored while the call runs, a fill call emits the
\* counter values the unit held (so no low/high pair its counter never held)
\* and a reset returns with every active counter zero; with increments
\* interleaving, both bad outcomes are reachable (C9_Witness).
C9_NoRaceNoDamage ==
    /\ (FillDone /\ ~enc_raced) => enc_verdict = "ok"
    /\ (cpc = "done" /\ ~clr_raced) => clr_ret = "clean"

C9_Witness ==
    /\ enc_verdict = "torn"
    /\ cpc = "done" /\ clr_raced /\ clr_ret = "dirty"

\* the byte count the unit's structure gives
RefBytes(g) ==
    4 * (4 + SumAll([f \in 1..g.n_functions |->
                 5 + SumAll([k \in 1..Len(g.functions[f].ctrs) |->
                         2 + 2 * g.functions[f].ctrs[k].num])]))

\* C10: whatever increments and resets happen before or during a call, the
\* count returned is the one the unit's structure gives, a fill call returns
\* what the size-only call before it returned, and no store goes past the
\* buffer sized by that call.
C10_SizeFromStructure ==
    /\ ~buffer.over
    /\ pc = "done" => ret = RefBytes(gi)
    /\ FillDone => ret = last_size

C10_Witness ==
    /\ FillDone
    /\ enc_raced /\ "clr" \in ev_cur
    /\ gi.n_functions = 2
    /\ TotalCounters(gi.functions) = 1

====
